---- MODULE Spec2Model ----
(***************************************************************************)
(* GlucoGuide dashboard: the view state of the four screens (chat, trends, *)
(* meal simulator, settings), the sidebar's highlighting and the           *)
(* timer-based mock actions of ChatSection and MealSimulator, as one state *)
(* machine.                                                                *)
(*                                                                         *)
(* One browser document is alive at a time.  It shows the screen of the    *)
(* current path; the screen's React state lives in that document, and so   *)
(* do the timers its handlers start with setTimeout.  The handlers run to  *)
(* completion one at a time on the event loop, so every handler is one     *)
(* action.                                                                 *)
(*                                                                         *)
(* A string the code trims is a sequence of pieces, each a white space     *)
(* character or a run of text that neither starts nor ends with white      *)
(* space; strings that are only stored or tested for emptiness are TLA+    *)
(* strings.                                                                *)
(***************************************************************************)
EXTENDS Integers, Sequences, FiniteSets

VARIABLES
    currentPath,     \* location.pathname of the document
    docId,           \* identity of the live document (= of its screen instance)
    now,             \* Date.now(), in ms
    timers,          \* pending setTimeout callbacks of the document, in creation order
    messages,        \* ChatSection: useState<ChatMessage[]>
    inputMessage,    \* ChatSection: the draft
    isLoading,       \* ChatSection: awaiting the mock reply
    mealForm,        \* MealSimulator: useState<MealForm>
    isSimulating,    \* MealSimulator: a simulation is pending
    showPrediction,  \* MealSimulator: the prediction card is rendered
    dateRange,       \* TrendsSection: useState({start, end})
    mealFilter,      \* TrendsSection: useState("all")
    settings,        \* SettingsSection: useState<Settings>
    toast,           \* the notification handed to toast(), "" if none
    lastEvent        \* history: the last event handled, with what it saw

vars == <<currentPath, docId, now, timers, messages, inputMessage, isLoading,
          mealForm, isSimulating, showPrediction, dateRange, mealFilter,
          settings, toast, lastEvent>>

chatVars == <<messages, inputMessage, isLoading>>
mealVars == <<mealForm, isSimulating, showPrediction>>
trendsVars == <<dateRange, mealFilter>>
settingsVars == <<settings, toast>>

----------------------------------------------------------------------------
(* Bounds of the exploration *)

\* a conversation is followed while it has at most MaxMessages messages
MaxMessages == 5
\* the clock is observed up to MaxPeriods reply delays after the first load
MaxPeriods == 2
\* Date.now() when the first document loads
FirstLoadClock == 5000
\* the largest tolerance, in mg/dL, tried for "back at the baseline"
MaxEpsilon == 5

----------------------------------------------------------------------------
(* Text *)

IsSpace(c) == c \in {" ", "\t", "\n", "\r"}

\* what the user types into the chat input: nothing, only white space, text
\* with white space around it
Texts == {<<>>, <<" ">>, <<" ", "a", " ">>}

RECURSIVE TrimStart(_)
TrimStart(s) ==
    IF s = <<>> THEN s
    ELSE IF IsSpace(Head(s)) THEN TrimStart(Tail(s)) ELSE s

RECURSIVE TrimEnd(_)
TrimEnd(s) ==
    IF s = <<>> THEN s
    ELSE IF IsSpace(s[Len(s)]) THEN TrimEnd(SubSeq(s, 1, Len(s) - 1)) ELSE s

\* String.prototype.trim
NoTrim(s) == s
Trim(s) == TrimEnd(TrimStart(s))

Digit(d) == CASE d = 0 -> "0" [] d = 1 -> "1" [] d = 2 -> "2" [] d = 3 -> "3"
              [] d = 4 -> "4" [] d = 5 -> "5" [] d = 6 -> "6" [] d = 7 -> "7"
              [] d = 8 -> "8" [] d = 9 -> "9"

\* Number.prototype.toString of a non-negative integer: its decimal digits
RECURSIVE ToString(_)
ToString(n) ==
    IF n < 10 THEN <<Digit(n)>>
    ELSE Append(ToString(n \div 10), Digit(n % 10))

----------------------------------------------------------------------------
(* Navigation shell *)

\* AppSidebar: the urls of menuItems
MenuUrls == {"/", "/trends", "/meal-sim", "/settings"}

\* the screen each route renders
RouteScreen(path) ==
    CASE path = "/" -> "chat"
      [] path = "/trends" -> "trends"
      [] path = "/meal-sim" -> "meal-sim"
      [] path = "/settings" -> "settings"
      [] OTHER -> "not-found"

Screen == RouteScreen(currentPath)

\* paths the document can be opened at that are no menu url
OtherPaths == {"/trends/x", "/trend"}
Paths == MenuUrls \cup OtherPaths

\* a path as the sequence of its segments
Segments(path) ==
    CASE path = "/" -> <<>>
      [] path = "/trends" -> <<"trends">>
      [] path = "/meal-sim" -> <<"meal-sim">>
      [] path = "/settings" -> <<"settings">>
      [] path = "/trends/x" -> <<"trends", "x">>
      [] path = "/trend" -> <<"trend">>

\* const isActive = (path) => currentPath === path
isActiveByPrefix(current, path) ==
    /\ Len(Segments(path)) <= Len(Segments(current))
    /\ SubSeq(Segments(current), 1, Len(Segments(path))) = Segments(path)
isActive(current, path) == current = path

\* the menu items rendered with the active style
Highlighted == {url \in MenuUrls : isActive(currentPath, url)}

----------------------------------------------------------------------------
(* Timers *)

\* delay of the mock reply, ChatSection
ChatDelay == 1000
\* the reply's id is Date.now() + 1
AgentIdOffset == 1
\* delay of the mock prediction, MealSimulator
SimDelay == 2000

\* setTimeout(callback, delay) called by the handler of `site`; sentIndex is
\* the position of the user message the same handler call appended (0: none)
NewTimer(site, delay, sentIndex) ==
    [site |-> site, due |-> now + delay, owner |-> docId, sentIndex |-> sentIndex]

\* The event loop runs a timer once it is due, earliest due first and, among
\* equal due times, in creation order.
Runnable(i) ==
    /\ i \in DOMAIN timers
    /\ timers[i].due <= now
    /\ \A j \in DOMAIN timers :
          j # i => \/ timers[j].due > timers[i].due
                   \/ (timers[j].due = timers[i].due /\ j > i)

\* a timer fires once: it leaves the queue when its callback runs
KeepFired(ts, i) == ts
WithoutFired(ts, i) == SubSeq(ts, 1, i - 1) \o SubSeq(ts, i + 1, Len(ts))

\* the callback's state updates reach the instance that started the timer
\* only while that instance is mounted
Live(t) == t.owner = docId

Pending(site) == {i \in DOMAIN timers : timers[i].site = site}

----------------------------------------------------------------------------
(* ChatSection *)

Greeting == "Hello! I'm your GlucoGuide Agent. I can help you understand your blood sugar patterns, simulate meal impacts, and provide personalized insights. What would you like to know?"
AgentReply == "I understand your question about glucose patterns. Based on typical patterns, let me analyze this for you. This is a demo response - in the full version, I'd connect to your AWS Bedrock agent for personalized insights."

\* A ChatMessage is its id, type and content; its timestamp is only displayed
\* and is left out.

InitialMessages ==
    <<[id |-> <<"1">>, type |-> "agent", content |-> Greeting]>>

\* the prompts of the quick action buttons
quickActions == <<
    <<"Simulate the impact of my typical breakfast">>,
    <<"Show me my glucose trends from this week">>,
    <<"Why did my glucose spike last night after dinner?">> >>

UserCount(ms) == Cardinality({i \in DOMAIN ms : ms[i].type = "user"})
AgentCount(ms) == Cardinality({i \in DOMAIN ms : ms[i].type = "agent"})

\* messages.map(...): one bubble per message, in the order of the array
NewestFirst(ms) == [k \in 1..Len(ms) |-> ms[Len(ms) + 1 - k]]
DisplayOrder(ms) == ms
DisplayedMessages == DisplayOrder(messages)

\* the "agent is thinking" bubble is rendered under the messages while
\* isLoading holds
ThinkingIndicatorShown == isLoading

\* the Send button's disabled attribute
SendDisabled == Trim(inputMessage) = <<>> \/ isLoading

\* the message, its reply and the replies still due fit into MaxMessages
HasRoom == Len(messages) + Cardinality(Pending("chat")) + 2 <= MaxMessages

\* handleSendMessage; `op` is the event that called it
handleSendMessage(op) ==
    IF Trim(inputMessage) = <<>>
    THEN /\ UNCHANGED <<chatVars, timers>>
         /\ lastEvent' = [op |-> op, accepted |-> FALSE]
    ELSE /\ HasRoom
         /\ messages' = Append(messages,
               [id |-> ToString(now), type |-> "user", content |-> inputMessage])
         /\ inputMessage' = <<>>
         /\ isLoading' = TRUE
         /\ timers' = Append(timers, NewTimer("chat", ChatDelay, Len(messages) + 1))
         /\ lastEvent' = [op |-> op, accepted |-> TRUE]

\* Input onChange
SetDraft(text) ==
    /\ Screen = "chat"
    /\ inputMessage' = text
    /\ lastEvent' = [op |-> "edit"]
    /\ UNCHANGED <<currentPath, docId, now, timers, messages, isLoading,
                   mealVars, trendsVars, settingsVars>>

\* a quick action button: fills the draft, does not send
QuickAction(k) ==
    /\ Screen = "chat"
    /\ inputMessage' = quickActions[k]
    /\ lastEvent' = [op |-> "edit"]
    /\ UNCHANGED <<currentPath, docId, now, timers, messages, isLoading,
                   mealVars, trendsVars, settingsVars>>

\* a click on the Send button: a disabled button dispatches no click
ClickSend ==
    /\ Screen = "chat"
    /\ ~SendDisabled
    /\ handleSendMessage("clickSend")
    /\ UNCHANGED <<currentPath, docId, now, mealVars, trendsVars, settingsVars>>

\* the Enter key in the input: onKeyPress calls handleSendMessage
PressEnter ==
    /\ Screen = "chat"
    /\ handleSendMessage("enter")
    /\ UNCHANGED <<currentPath, docId, now, mealVars, trendsVars, settingsVars>>

\* a callback that is lost: the timer goes, nothing is delivered
ChatTimerDropped(i) ==
    /\ Runnable(i)
    /\ timers[i].site = "chat"
    /\ timers' = WithoutFired(timers, i)
    /\ lastEvent' = [op |-> "chatTimer", live |-> Live(timers[i])]
    /\ UNCHANGED <<currentPath, docId, now, chatVars, mealVars, trendsVars,
                   settingsVars>>

\* the callback handleSendMessage scheduled
ChatTimerFire(i) ==
    /\ Runnable(i)
    /\ timers[i].site = "chat"
    /\ timers' = WithoutFired(timers, i)
    /\ IF Live(timers[i])
       THEN /\ messages' = Append(messages,
                  [id |-> ToString(now + AgentIdOffset), type |-> "agent", content |-> AgentReply])
            /\ isLoading' = FALSE
            /\ UNCHANGED inputMessage
       ELSE UNCHANGED chatVars
    /\ lastEvent' = [op |-> "chatTimer", live |-> Live(timers[i])]
    /\ UNCHANGED <<currentPath, docId, now, mealVars, trendsVars, settingsVars>>

----------------------------------------------------------------------------
(* MealSimulator *)

InitialMealForm == [description |-> "", carbs |-> "", gi |-> "", insulin |-> ""]

\* Sample prediction data
predictionDataShort ==
    <<[time |-> 0, predicted_glucose |-> 95, baseline |-> 95],
      [time |-> 15, predicted_glucose |-> 98, baseline |-> 95],
      [time |-> 30, predicted_glucose |-> 115, baseline |-> 95],
      [time |-> 45, predicted_glucose |-> 135, baseline |-> 95],
      [time |-> 60, predicted_glucose |-> 155, baseline |-> 95],
      [time |-> 75, predicted_glucose |-> 145, baseline |-> 95],
      [time |-> 90, predicted_glucose |-> 130, baseline |-> 95],
      [time |-> 105, predicted_glucose |-> 120, baseline |-> 95],
      [time |-> 120, predicted_glucose |-> 110, baseline |-> 95],
      [time |-> 135, predicted_glucose |-> 105, baseline |-> 95],
      [time |-> 150, predicted_glucose |-> 100, baseline |-> 95],
      [time |-> 180, predicted_glucose |-> 95, baseline |-> 95]>>
predictionData ==
    <<[time |-> 0, predicted_glucose |-> 95, baseline |-> 95],
      [time |-> 15, predicted_glucose |-> 98, baseline |-> 95],
      [time |-> 30, predicted_glucose |-> 115, baseline |-> 95],
      [time |-> 45, predicted_glucose |-> 135, baseline |-> 95],
      [time |-> 60, predicted_glucose |-> 155, baseline |-> 95],
      [time |-> 75, predicted_glucose |-> 145, baseline |-> 95],
      [time |-> 90, predicted_glucose |-> 130, baseline |-> 95],
      [time |-> 105, predicted_glucose |-> 120, baseline |-> 95],
      [time |-> 120, predicted_glucose |-> 110, baseline |-> 95],
      [time |-> 135, predicted_glucose |-> 105, baseline |-> 95],
      [time |-> 150, predicted_glucose |-> 100, baseline |-> 95],
      [time |-> 165, predicted_glucose |-> 98, baseline |-> 95],
      [time |-> 180, predicted_glucose |-> 95, baseline |-> 95]>>

presetMeals ==
    <<[name |-> "Oatmeal with Banana", carbs |-> "45", gi |-> "medium"],
      [name |-> "White Bread Toast (2 slices)", carbs |-> "30", gi |-> "high"],
      [name |-> "Greek Yogurt with Berries", carbs |-> "20", gi |-> "low"],
      [name |-> "Pasta with Tomato Sauce", carbs |-> "60", gi |-> "medium"]>>

\* what the user enters into each field of the form
FieldInputs ==
    [description |-> {"", "a"},
     carbs |-> {"", "0"},
     gi |-> {"low", "medium", "high"},
     insulin |-> {"", "4"}]

\* the chart of the prediction card: <LineChart data={predictionData}>,
\* rendered only when showPrediction
DisplayedSeries == IF showPrediction THEN predictionData ELSE <<>>

\* the three cards of the Prediction Summary, rendered with the chart
predictionSummaryEarlyReturn ==
    [peak |-> 155, peakAt |-> 60, returnHours |-> 3, returnMinutes |-> 165,
     impact |-> "Moderate", score |-> "6.5/10"]
predictionSummary ==
    [peak |-> 155, peakAt |-> 60, returnHours |-> 3, returnMinutes |-> 180,
     impact |-> "Moderate", score |-> "6.5/10"]
DisplayedSummary == IF showPrediction THEN predictionSummary ELSE <<>>

\* the Prediction Results card as rendered for a form: chart and summary
PredictionCardByCarbs(form, shown) ==
    IF shown
    THEN [series |-> IF form.carbs = "0"
                     THEN [k \in DOMAIN predictionData |->
                             [predictionData[k] EXCEPT
                                !.predicted_glucose = predictionData[k].baseline]]
                     ELSE predictionData,
          summary |-> predictionSummary]
    ELSE <<>>
PredictionCard(form, shown) ==
    IF shown
    THEN [series |-> predictionData, summary |-> predictionSummary]
    ELSE <<>>

\* the Simulate button's disabled attribute
SimulateDisabledIgnoringPending ==
    mealForm.description = "" \/ mealForm.carbs = ""
SimulateDisabled ==
    mealForm.description = "" \/ mealForm.carbs = "" \/ isSimulating

\* a handler that takes the old prediction down while the new one is computed
handleSimulateHidingPrediction ==
    IF mealForm.description = "" \/ mealForm.carbs = ""
    THEN /\ UNCHANGED <<mealVars, timers>>
         /\ lastEvent' = [op |-> "simulate", accepted |-> FALSE]
    ELSE /\ isSimulating' = TRUE
         /\ showPrediction' = FALSE
         /\ timers' = Append(timers, NewTimer("sim", SimDelay, 0))
         /\ lastEvent' = [op |-> "simulate", accepted |-> TRUE]
         /\ UNCHANGED mealForm

\* handleSimulate
handleSimulate ==
    IF mealForm.description = "" \/ mealForm.carbs = ""
    THEN /\ UNCHANGED <<mealVars, timers>>
         /\ lastEvent' = [op |-> "simulate", accepted |-> FALSE]
    ELSE /\ isSimulating' = TRUE
         /\ timers' = Append(timers, NewTimer("sim", SimDelay, 0))
         /\ lastEvent' = [op |-> "simulate", accepted |-> TRUE]
         /\ UNCHANGED <<mealForm, showPrediction>>

\* handleInputChange(field, value)
handleInputChange(field, value) ==
    /\ Screen = "meal-sim"
    /\ mealForm' = [mealForm EXCEPT ![field] = value]
    /\ lastEvent' = [op |-> "edit"]
    /\ UNCHANGED <<currentPath, docId, now, timers, chatVars,
                   isSimulating, showPrediction, trendsVars, settingsVars>>

\* the form a preset button's onClick sets
PresetFormKeepingInsulin(meal, form) ==
    [description |-> meal.name, carbs |-> meal.carbs, gi |-> meal.gi,
     insulin |-> form.insulin]
PresetForm(meal, form) ==
    [description |-> meal.name, carbs |-> meal.carbs, gi |-> meal.gi,
     insulin |-> ""]

\* a click on a preset button
ApplyPreset(k) ==
    /\ Screen = "meal-sim"
    /\ mealForm' = PresetForm(presetMeals[k], mealForm)
    /\ lastEvent' = [op |-> "preset", insulin |-> mealForm.insulin]
    /\ UNCHANGED <<currentPath, docId, now, timers, chatVars,
                   isSimulating, showPrediction, trendsVars, settingsVars>>

\* a click on the Simulate button: a disabled button dispatches no click
ClickSimulate ==
    /\ Screen = "meal-sim"
    /\ ~SimulateDisabled
    /\ handleSimulate
    /\ UNCHANGED <<currentPath, docId, now, chatVars, trendsVars, settingsVars>>

\* the callback handleSimulate scheduled
SimTimerFire(i) ==
    /\ Runnable(i)
    /\ timers[i].site = "sim"
    /\ timers' = WithoutFired(timers, i)
    /\ IF Live(timers[i])
       THEN /\ isSimulating' = FALSE
            /\ showPrediction' = TRUE
            /\ UNCHANGED mealForm
       ELSE UNCHANGED mealVars
    /\ lastEvent' = [op |-> "simTimer", live |-> Live(timers[i])]
    /\ UNCHANGED <<currentPath, docId, now, chatVars, trendsVars, settingsVars>>

----------------------------------------------------------------------------
(* TrendsSection *)

\* The value of an <input type="date"> is "" or "yyyy-mm-dd"; a date is the
\* tuple <<yyyy, mm, dd>> and the empty value is <<>>.
InitialDateRange == [start |-> <<2025, 1, 20>>, end |-> <<2025, 1, 25>>]
InitialMealFilter == "all"

\* the values the two date inputs and the Select can deliver
DateInputs == {<<>>, <<2024, 12, 31>>, <<2025, 1, 20>>, <<2025, 1, 25>>}
MealFilters == {"all", "breakfast", "lunch", "dinner", "snack"}

\* a reading without a meal has meal: null
null == "null"

\* Sample glucose data
glucoseData ==
    <<[time |-> "6:00", glucose |-> 95, meal |-> null],
      [time |-> "7:00", glucose |-> 110, meal |-> "Breakfast"],
      [time |-> "8:00", glucose |-> 145, meal |-> null],
      [time |-> "9:00", glucose |-> 130, meal |-> null],
      [time |-> "10:00", glucose |-> 115, meal |-> null],
      [time |-> "11:00", glucose |-> 105, meal |-> null],
      [time |-> "12:00", glucose |-> 98, meal |-> "Lunch"],
      [time |-> "13:00", glucose |-> 165, meal |-> null],
      [time |-> "14:00", glucose |-> 140, meal |-> null],
      [time |-> "15:00", glucose |-> 120, meal |-> null],
      [time |-> "16:00", glucose |-> 108, meal |-> null],
      [time |-> "17:00", glucose |-> 102, meal |-> null],
      [time |-> "18:00", glucose |-> 95, meal |-> "Dinner"],
      [time |-> "19:00", glucose |-> 175, meal |-> null],
      [time |-> "20:00", glucose |-> 155, meal |-> null],
      [time |-> "21:00", glucose |-> 125, meal |-> null],
      [time |-> "22:00", glucose |-> 110, meal |-> null]>>

\* the colour of a reading: low below 70, high above 140, normal otherwise
getGlucoseColor(value) ==
    IF value < 70 THEN "#f59e0b"
    ELSE IF value > 140 THEN "#ef4444"
    ELSE "#10b981"

\* the meal a filter value names
FilterMeal(filter) ==
    CASE filter = "breakfast" -> "Breakfast"
      [] filter = "lunch" -> "Lunch"
      [] filter = "dinner" -> "Dinner"
      [] filter = "snack" -> "Snack"
      [] OTHER -> null

\* <LineChart data={glucoseData}>: the data handed to the chart under a
\* date range and a meal filter
IsFilterMeal(p, filter) == p.meal = FilterMeal(filter)
ChartDataFiltered(range, filter) ==
    IF filter = "all" THEN glucoseData
    ELSE [k \in 1..Cardinality({j \in DOMAIN glucoseData :
                                   IsFilterMeal(glucoseData[j], filter)}) |->
            glucoseData[CHOOSE j \in DOMAIN glucoseData :
                /\ IsFilterMeal(glucoseData[j], filter)
                /\ Cardinality({i \in 1..j :
                                  IsFilterMeal(glucoseData[i], filter)}) = k]]
ChartData(range, filter) == glucoseData

\* the three Summary Stats cards under a date range and a meal filter
trendsStats == [average |-> 118, timeInRange |-> 78, variability |-> "Medium"]
SummaryStats(range, filter) == trendsStats

\* what the Trends screen shows
DisplayedTrends == ChartData(dateRange, mealFilter)
DisplayedStats == SummaryStats(dateRange, mealFilter)

\* "yyyy-mm-dd" strings order as their dates do
Later(a, b) ==
    /\ a # <<>>
    /\ b # <<>>
    /\ \/ a[1] > b[1]
       \/ (a[1] = b[1] /\ a[2] > b[2])
       \/ (a[1] = b[1] /\ a[2] = b[2] /\ a[3] > b[3])

\* prev => ({ ...prev, [field]: value })
DateRangeWithOrdered(prev, field, value) ==
    IF Later([prev EXCEPT ![field] = value].start,
             [prev EXCEPT ![field] = value].end)
    THEN prev
    ELSE [prev EXCEPT ![field] = value]
DateRangeWith(prev, field, value) == [prev EXCEPT ![field] = value]

SetDateRange(field, value) ==
    /\ Screen = "trends"
    /\ dateRange' = DateRangeWith(dateRange, field, value)
    /\ lastEvent' = [op |-> "setDateRange"]
    /\ UNCHANGED <<currentPath, docId, now, timers, chatVars, mealVars,
                   mealFilter, settingsVars>>

SetMealFilter(value) ==
    /\ Screen = "trends"
    /\ mealFilter' = value
    /\ lastEvent' = [op |-> "setMealFilter"]
    /\ UNCHANGED <<currentPath, docId, now, timers, chatVars, mealVars,
                   dateRange, settingsVars>>

----------------------------------------------------------------------------
(* SettingsSection *)

InitialSettings ==
    [apiKey |-> "", darkMode |-> FALSE, notifications |-> TRUE,
     glucoseUnit |-> "mg/dL", targetRange |-> [min |-> "70", max |-> "140"],
     emergencyContact |-> "", dataRetention |-> "1year"]

\* useState is initialised from the literal above on every mount; nothing is
\* read back from an earlier document
SettingsRestoredAtMount(previous) == previous
SettingsAtMount(previous) == InitialSettings

\* the values the inputs, switches and selects can deliver
SettingsInputs ==
    [apiKey |-> {"", "k"},
     darkMode |-> BOOLEAN,
     glucoseUnit |-> {"mg/dL", "mmol/L"},
     notifications |-> BOOLEAN,
     emergencyContact |-> {"", "c"},
     dataRetention |-> {"3months", "6months", "1year", "forever"}]
RangeInputs == [min |-> {"70", "150"}, max |-> {"140", ""}]

\* handleInputChange of SettingsSection
SettingsInputChange(field, value) ==
    /\ Screen = "settings"
    /\ settings' = [settings EXCEPT ![field] = value]
    /\ lastEvent' = [op |-> "edit"]
    /\ UNCHANGED <<currentPath, docId, now, timers, chatVars, mealVars,
                   trendsVars, toast>>

handleRangeChange(field, value) ==
    /\ Screen = "settings"
    /\ settings' = [settings EXCEPT !.targetRange[field] = value]
    /\ lastEvent' = [op |-> "edit"]
    /\ UNCHANGED <<currentPath, docId, now, timers, chatVars, mealVars,
                   trendsVars, toast>>

SavedToast == "Settings Saved"

handleSave ==
    /\ Screen = "settings"
    /\ toast' = SavedToast
    /\ lastEvent' = [op |-> "save"]
    /\ UNCHANGED <<currentPath, docId, now, timers, chatVars, mealVars,
                   trendsVars, settings>>

----------------------------------------------------------------------------
(* The document *)

\* a click on a sidebar link, <a href={item.url}>: the browser loads the url
\* as a new document, which ends the old document's timers
TimersKeptOnRouteChange(ts) == ts
TimersAfterUnload(ts) == <<>>

\* the new document is none of those a surviving timer belongs to
FreshDocId(ts) ==
    CHOOSE n \in 0..Len(ts) :
        /\ \A i \in DOMAIN ts : ts[i].owner # n
        /\ \A m \in 0..(n - 1) : \E i \in DOMAIN ts : ts[i].owner = m

Navigate(url) ==
    /\ currentPath' = url
    /\ timers' = TimersAfterUnload(timers)
    /\ docId' = FreshDocId(timers')
    /\ messages' = InitialMessages
    /\ inputMessage' = <<>>
    /\ isLoading' = FALSE
    /\ mealForm' = InitialMealForm
    /\ isSimulating' = FALSE
    /\ showPrediction' = FALSE
    /\ dateRange' = InitialDateRange
    /\ mealFilter' = InitialMealFilter
    /\ settings' = SettingsAtMount(settings)
    /\ toast' = ""
    /\ lastEvent' = [op |-> "load", pending |-> Len(timers)]
    /\ UNCHANGED now

\* Time passes.  The clock is observed at whole reply delays after the first
\* load and AgentIdOffset ms later: the two distances in time the code's ids
\* can tell apart.
Skew(t) == (t - FirstLoadClock) % ChatDelay
Advance(d) ==
    /\ now + d <= FirstLoadClock + MaxPeriods * ChatDelay + AgentIdOffset
    /\ Skew(now + d) <= AgentIdOffset
    /\ now' = now + d
    /\ UNCHANGED <<currentPath, docId, timers, chatVars, mealVars, trendsVars,
                   settingsVars, lastEvent>>

\* the first document, opened at any path
Init ==
    /\ currentPath \in Paths
    /\ docId = 0
    /\ now = FirstLoadClock
    /\ timers = <<>>
    /\ messages = InitialMessages
    /\ inputMessage = <<>>
    /\ isLoading = FALSE
    /\ mealForm = InitialMealForm
    /\ isSimulating = FALSE
    /\ showPrediction = FALSE
    /\ dateRange = InitialDateRange
    /\ mealFilter = InitialMealFilter
    /\ settings = InitialSettings
    /\ toast = ""
    /\ lastEvent = [op |-> "load", pending |-> 0]

Next ==
    \/ \E url \in MenuUrls : Navigate(url)
    \/ \E d \in {AgentIdOffset, ChatDelay, SimDelay} : Advance(d)
    \/ \E text \in Texts : SetDraft(text)
    \/ \E k \in DOMAIN quickActions : QuickAction(k)
    \/ ClickSend
    \/ PressEnter
    \/ \E i \in DOMAIN timers : ChatTimerFire(i)
    \/ \E field \in DOMAIN FieldInputs :
          \E value \in FieldInputs[field] : handleInputChange(field, value)
    \/ \E k \in DOMAIN presetMeals : ApplyPreset(k)
    \/ ClickSimulate
    \/ \E i \in DOMAIN timers : SimTimerFire(i)
    \/ \E field \in {"start", "end"} :
          \E value \in DateInputs : SetDateRange(field, value)
    \/ \E value \in MealFilters : SetMealFilter(value)
    \/ \E field \in DOMAIN SettingsInputs :
          \E value \in SettingsInputs[field] : SettingsInputChange(field, value)
    \/ \E field \in DOMAIN RangeInputs :
          \E value \in RangeInputs[field] : handleRangeChange(field, value)
    \/ handleSave

Spec == Init /\ [][Next]_vars

\* The two screens with a mock action, their fields typed by hand (the quick
\* actions and the presets fill the same fields), and the document loads.
MockNext ==
    \/ \E url \in MenuUrls : Navigate(url)
    \/ \E d \in {AgentIdOffset, ChatDelay, SimDelay} : Advance(d)
    \/ \E text \in Texts : SetDraft(text)
    \/ ClickSend
    \/ PressEnter
    \/ \E i \in DOMAIN timers : ChatTimerFire(i)
    \/ \E field \in DOMAIN FieldInputs :
          \E value \in FieldInputs[field] : handleInputChange(field, value)
    \/ ClickSimulate
    \/ \E i \in DOMAIN timers : SimTimerFire(i)

\* The clock runs on, and the event loop runs the callback of every timer
\* that is due.
FairSpec ==
    /\ Init
    /\ [][MockNext]_vars
    /\ WF_vars(\E d \in {AgentIdOffset, ChatDelay, SimDelay} : Advance(d))
    /\ WF_vars(\E i \in DOMAIN timers : ChatTimerFire(i))
    /\ WF_vars(\E i \in DOMAIN timers : SimTimerFire(i))

----------------------------------------------------------------------------
(* Properties *)

OnlyWhiteSpace(s) == \A k \in DOMAIN s : s[k] \in {" ", "\t", "\n", "\r"}

\* an attempt to send: the Send button or the Enter key
SendAttempt == ClickSend \/ PressEnter

\* position of the most recent user message, 0 if there is none
LastUserIndex(ms) ==
    IF \E k \in DOMAIN ms : ms[k].type = "user"
    THEN CHOOSE k \in DOMAIN ms :
            /\ ms[k].type = "user"
            /\ \A m \in DOMAIN ms : ms[m].type = "user" => m <= k
    ELSE 0

\* C1: while isLoading is true, every attempt to send, by the Send button or
\* by the Enter key, leaves the messages, the draft and isLoading unchanged
\* and starts no timer.
SendWhileAwaitingIsNoOp ==
    [][(isLoading /\ SendAttempt)
          => UNCHANGED <<messages, inputMessage, isLoading, timers>>]_vars

\* C2: in every reachable state isLoading is true exactly when the reply
\* timer started by the most recent user message has not yet fired.
AwaitingIffLastReplyPending ==
    isLoading <=>
        \E i \in Pending("chat") : timers[i].sentIndex = LastUserIndex(messages)

\* C3: an accepted send at once appends one user message carrying the draft,
\* empties the draft and sets isLoading (from the initial state: length 2);
\* when its timer fires the sequence is exactly 2 longer than before the
\* send (from the initial state: length 3), the reply is the last message,
\* after the user message, and isLoading is false.
SendGrowsByOneThenTwo ==
    [][/\ (SendAttempt /\ lastEvent'.accepted) =>
            /\ Len(messages') = Len(messages) + 1
            /\ SubSeq(messages', 1, Len(messages)) = messages
            /\ messages'[Len(messages')].type = "user"
            /\ messages'[Len(messages')].content = inputMessage
            /\ inputMessage' = <<>>
            /\ isLoading'
       /\ \A i \in DOMAIN timers : ChatTimerFire(i) =>
            /\ Len(messages') = (timers[i].sentIndex - 1) + 2
            /\ SubSeq(messages', 1, Len(messages)) = messages
            /\ messages'[Len(messages')].type = "agent"
            /\ messages'[timers[i].sentIndex].type = "user"
            /\ ~isLoading']_vars

\* C4: an attempt to send while the draft is empty or only white space
\* changes neither the messages, nor the draft, nor isLoading, and starts no
\* timer.
BlankSendIsNoOp ==
    [][(SendAttempt /\ OnlyWhiteSpace(inputMessage))
          => UNCHANGED <<messages, inputMessage, isLoading, timers>>]_vars

\* C4 witness: the Enter key was pressed on a draft of white space only
BlankSendRejected ==
    /\ lastEvent.op = "enter"
    /\ ~lastEvent.accepted
    /\ inputMessage # <<>>
    /\ OnlyWhiteSpace(inputMessage)
    /\ Len(messages) = 1
    /\ timers = <<>>

\* C5: no timer callback runs against a screen instance that was torn down:
\* every pending timer belongs to the mounted instance, and every callback
\* that ran found its instance mounted.
NoCallbackAfterTeardown ==
    /\ \A i \in DOMAIN timers : timers[i].owner = docId
    /\ lastEvent.op \in {"chatTimer", "simTimer"} => lastEvent.live

\* C5 witness: the user navigated away while a mock action was pending
LeftWhilePending ==
    /\ lastEvent.op = "load"
    /\ lastEvent.pending > 0
    /\ timers = <<>>

\* C6: a simulation starts only from a state with a description, with carbs
\* and with none pending; it then sets isSimulating and starts exactly one
\* timer of 2000 ms, changing nothing else; at most one simulation timer is
\* ever pending.
SimulateOnlyWhenEnabled ==
    /\ [](Cardinality(Pending("sim")) <= 1)
    /\ [][ClickSimulate =>
            /\ mealForm.description # ""
            /\ mealForm.carbs # ""
            /\ ~isSimulating
            /\ isSimulating'
            /\ Len(timers') = Len(timers) + 1
            /\ timers'[Len(timers')].site = "sim"
            /\ timers'[Len(timers')].due = now + 2000
            /\ SubSeq(timers', 1, Len(timers)) = timers
            /\ UNCHANGED <<mealForm, showPrediction>>]_vars

\* C6 witness: a simulation was accepted and is pending
SimulationPending ==
    /\ lastEvent.op = "simulate"
    /\ lastEvent.accepted
    /\ isSimulating
    /\ Cardinality(Pending("sim")) = 1

\* C7: when the timer of a simulation fires, isSimulating is false and the
\* prediction is shown, with 13 points at the minutes 0, 15, ..., 180.
PredictionAfterDelay ==
    [][\A i \in DOMAIN timers : SimTimerFire(i) =>
            /\ ~isSimulating'
            /\ showPrediction'
            /\ Len(DisplayedSeries') = 13
            /\ \A k \in 1..13 : DisplayedSeries'[k].time = 15 * (k - 1)
            /\ \A k \in 1..12 :
                  DisplayedSeries'[k].time < DisplayedSeries'[k + 1].time]_vars

\* C7 witness: a simulation has resolved and its prediction is shown
PredictionShown ==
    /\ lastEvent.op = "simTimer"
    /\ showPrediction
    /\ ~isSimulating
    /\ Len(DisplayedSeries) = 13

\* C8, as claimed: a preset sets description, carbs and gi from the preset
\* and leaves insulin as it was.
PresetKeepsInsulin ==
    [][\A k \in DOMAIN presetMeals : ApplyPreset(k) =>
            /\ mealForm'.description = presetMeals[k].name
            /\ mealForm'.carbs = presetMeals[k].carbs
            /\ mealForm'.gi = presetMeals[k].gi
            /\ mealForm'.insulin = mealForm.insulin]_vars

\* C8, amended: a preset sets description, carbs and gi from the preset and
\* resets insulin to the empty string, whatever it was.
PresetClearsInsulin ==
    [][\A k \in DOMAIN presetMeals : ApplyPreset(k) =>
            /\ mealForm'.description = presetMeals[k].name
            /\ mealForm'.carbs = presetMeals[k].carbs
            /\ mealForm'.gi = presetMeals[k].gi
            /\ mealForm'.insulin = ""]_vars

\* C8 witness: a preset was applied to a form that had insulin entered
PresetAppliedOverInsulin ==
    /\ lastEvent.op = "preset"
    /\ lastEvent.insulin # ""
    /\ mealForm.insulin = ""
    /\ mealForm.description # ""

\* C9: the ids of the messages are pairwise distinct in every reachable state.
IdsDistinct ==
    \A i, j \in DOMAIN messages : i # j => messages[i].id # messages[j].id

\* C10: each started mock action produces its result at most once: the agent
\* messages never outnumber the user messages plus the greeting, a timer
\* that fires leaves the queue, and no simulation timer is left once one
\* has resolved.
ResultAtMostOncePerStart ==
    /\ [](AgentCount(messages) <= UserCount(messages) + 1)
    /\ [][\A i \in DOMAIN timers : (ChatTimerFire(i) \/ SimTimerFire(i)) =>
            /\ Len(timers') = Len(timers) - 1
            /\ (timers[i].site = "sim" => Pending("sim")' = {})]_vars

\* C10 witness: every accepted user message has got its one reply
AllRepliesDelivered ==
    /\ lastEvent.op = "chatTimer"
    /\ UserCount(messages) = 2
    /\ AgentCount(messages) = 3
    /\ timers = <<>>

\* C11: the thinking indicator is shown exactly while the reply of some send
\* is still missing, and the step that appends an agent reply is the step in
\* which the indicator disappears.
IndicatorGoesWithReply ==
    /\ [](ThinkingIndicatorShown <=> Pending("chat") # {})
    /\ [][\A i \in DOMAIN timers : ChatTimerFire(i) =>
            /\ ThinkingIndicatorShown
            /\ ~ThinkingIndicatorShown'
            /\ Len(messages') = Len(messages) + 1
            /\ messages'[Len(messages')].type = "agent"]_vars

\* C12: setting the start date, the end date or the meal filter stores
\* exactly the given value, whatever the other values are, and leaves the
\* two other filter components as they were.
FilterSettersStoreAsGiven ==
    [][/\ \A value \in DateInputs :
            /\ SetDateRange("start", value) =>
                  /\ dateRange'.start = value
                  /\ dateRange'.end = dateRange.end
                  /\ mealFilter' = mealFilter
            /\ SetDateRange("end", value) =>
                  /\ dateRange'.end = value
                  /\ dateRange'.start = dateRange.start
                  /\ mealFilter' = mealFilter
       /\ \A value \in MealFilters :
            SetMealFilter(value) =>
                  /\ mealFilter' = value
                  /\ dateRange' = dateRange]_vars

\* C12 witness: a date was set and the stored start is later than the
\* stored end, next to a filter other than the initial one
StartAfterEndStored ==
    /\ lastEvent.op = "setDateRange"
    /\ dateRange.start = <<2025, 1, 25>>
    /\ dateRange.end = <<2024, 12, 31>>
    /\ mealFilter = "lunch"

\* C13: isActive holds of two paths exactly when they are equal, so a path
\* that only extends a menu url does not match it; at most one menu item is
\* highlighted at any path, and exactly the item of the current path at
\* each of the four menu urls.
ExactMatchHighlight ==
    /\ \A p, q \in Paths : isActive(p, q) <=> p = q
    /\ ~isActive("/trends/x", "/trends")
    /\ ~isActive("/trends", "/trends/x")
    /\ Cardinality(Highlighted) <= 1
    /\ currentPath \in MenuUrls => Highlighted = {currentPath}

\* C13 witness: the document is at a path below a menu url and no item is
\* highlighted
NothingHighlightedBelowMenuUrl ==
    /\ currentPath = "/trends/x"
    /\ Highlighted = {}

Abs(x) == IF x < 0 THEN -x ELSE x
Epsilons == 0..MaxEpsilon

\* the largest predicted value of a series and the first position it is at
PeakValue(series) ==
    CHOOSE v \in {series[k].predicted_glucose : k \in DOMAIN series} :
        \A k \in DOMAIN series : series[k].predicted_glucose <= v
PeakIndex(series) ==
    LET peak == PeakValue(series)
    IN  CHOOSE k \in DOMAIN series :
            /\ series[k].predicted_glucose = peak
            /\ \A m \in 1..(k - 1) : series[m].predicted_glucose < peak

\* the first position after the peak whose predicted value is within eps of
\* its baseline, 0 if there is none
ReturnIndex(series, eps) ==
    LET peakAt == PeakIndex(series)
        back == {k \in DOMAIN series :
                    /\ k > peakAt
                    /\ Abs(series[k].predicted_glucose - series[k].baseline) <= eps}
    IN  IF back = {} THEN 0
        ELSE CHOOSE k \in back : \A m \in back : k <= m
ReturnMinutes(series, eps) ==
    LET k == ReturnIndex(series, eps)
    IN  IF k = 0 THEN -1 ELSE series[k].time

SaveKeepsNothing ==
    /\ [][handleSave => (settings' = settings /\ toast' = SavedToast)]_vars
    /\ [][(\E url \in MenuUrls : Navigate(url)) =>
            /\ settings'.apiKey = ""
            /\ settings'.darkMode = FALSE
            /\ settings'.notifications = TRUE
            /\ settings'.glucoseUnit = "mg/dL"
            /\ settings'.targetRange = [min |-> "70", max |-> "140"]
            /\ settings'.emergencyContact = ""
            /\ settings'.dataRetention = "1year"]_vars

\* C15 witness: edited settings were saved and are still on the screen
EditedSettingsSaved ==
    /\ lastEvent.op = "save"
    /\ toast = SavedToast
    /\ settings.darkMode
    /\ settings.apiKey = "k"
    /\ settings.targetRange.min = "150"

\* C16: whatever the date range and the meal filter have been set to, the
\* Trends screen charts the whole sample dataset, 17 readings in their
\* order, and shows the summary statistics it shows at mount.
FiltersChangeNothingShown ==
    Screen = "trends" =>
        /\ DisplayedTrends = glucoseData
        /\ Len(DisplayedTrends) = 17
        /\ DisplayedStats = SummaryStats(InitialDateRange, InitialMealFilter)

\* C16 witness: the range and the filter were both changed, the filter last,
\* to a meal that only one reading has
FilteredToOneMeal ==
    /\ Screen = "trends"
    /\ lastEvent.op = "setMealFilter"
    /\ mealFilter = "breakfast"
    /\ dateRange.start = <<2025, 1, 25>>
    /\ dateRange.end = <<>>
    /\ Len(DisplayedTrends) = 17

\* the transitions of the chat screen
ChatTransition ==
    \/ \E text \in Texts : SetDraft(text)
    \/ \E k \in DOMAIN quickActions : QuickAction(k)
    \/ SendAttempt
    \/ \E i \in DOMAIN timers : ChatTimerFire(i)

\* C17: every transition of the chat keeps the messages it found, at their
\* positions, and adds at most one, at the end; the bubbles are displayed in
\* the order the messages were appended in.
MessagesAppendOnly ==
    [][ChatTransition =>
          /\ Len(messages') \in {Len(messages), Len(messages) + 1}
          /\ SubSeq(messages', 1, Len(messages)) = messages
          /\ DisplayedMessages' = messages'
          /\ SubSeq(DisplayedMessages', 1, Len(messages)) = DisplayedMessages]_vars

\* C17 witness: a send and its reply were appended after the greeting, and a
\* draft was typed since
DraftAfterReply ==
    /\ lastEvent.op = "edit"
    /\ inputMessage # <<>>
    /\ Len(messages) = 3
    /\ messages[1] = InitialMessages[1]
    /\ messages[2].type = "user"
    /\ messages[3].type = "agent"

RECURSIVE SumGlucose(_)
SumGlucose(series) ==
    IF series = <<>> THEN 0
    ELSE series[1].glucose + SumGlucose(Tail(series))

\* the readings of a series within 70-140 mg/dL, the normal range
InRangeCount(series) ==
    Cardinality({k \in DOMAIN series :
                    getGlucoseColor(series[k].glucose) = "#10b981"})

\* C18: on the Trends screen the average shown is the mean of the glucose
\* values of the charted dataset and the time in range shown is the
\* percentage of its readings within 70-140 mg/dL, each to the whole number
\* (less than 1 away from the exact value).
StatsAreOfTheDataset ==
    Screen = "trends" =>
        /\ Abs(DisplayedStats.average * Len(DisplayedTrends)
                  - SumGlucose(DisplayedTrends)) < Len(DisplayedTrends)
        /\ Abs(DisplayedStats.timeInRange * Len(DisplayedTrends)
                  - 100 * InRangeCount(DisplayedTrends)) < Len(DisplayedTrends)

\* the forms a simulation can be started from
EnabledForms ==
    {f \in [description : FieldInputs.description \cup
                              {presetMeals[k].name : k \in DOMAIN presetMeals},
            carbs : FieldInputs.carbs \cup
                        {presetMeals[k].carbs : k \in DOMAIN presetMeals},
            gi : FieldInputs.gi \cup {""},
            insulin : FieldInputs.insulin] :
        f.description # "" /\ f.carbs # ""}

\* C19: the prediction shown does not depend on the form: whenever a
\* prediction is shown, its series and its summary figures are those that
\* would be shown for any other form a simulation can be started from.
PredictionIgnoresForm ==
    showPrediction =>
        /\ PredictionCard(mealForm, showPrediction).series = DisplayedSeries
        /\ PredictionCard(mealForm, showPrediction).summary = DisplayedSummary
        /\ \A f \in EnabledForms :
              PredictionCard(f, TRUE) = PredictionCard(mealForm, showPrediction)

\* C19 witness: a simulation started from a typed form with 0 g of carbs and
\* 4 units of insulin has resolved
PredictionForTypedForm ==
    /\ lastEvent.op = "simTimer"
    /\ showPrediction
    /\ mealForm.description = "a"
    /\ mealForm.carbs = "0"
    /\ mealForm.gi = "high"
    /\ mealForm.insulin = "4"

\* the last instant the clock is observed at
ClockEnd == FirstLoadClock + MaxPeriods * ChatDelay + AgentIdOffset

\* the document was left: a new one has just been loaded
Left == lastEvent.op = "load"

\* the send that appended message k awaits its reply, due in observed time
ChatSendPending(k) ==
    \E i \in Pending("chat") :
        timers[i].sentIndex = k /\ timers[i].due <= ClockEnd

\* message k is a user message whose timer is gone and an agent message
\* stands after it
Replied(k) ==
    /\ k \in DOMAIN messages
    /\ messages[k].type = "user"
    /\ \A i \in Pending("chat") : timers[i].sentIndex # k
    /\ \E j \in (k + 1)..Len(messages) : messages[j].type = "agent"

\* a simulation is pending, its timer due in observed time
SimPendingInTime ==
    /\ isSimulating
    /\ \E i \in Pending("sim") : timers[i].due <= ClockEnd

\* C20: unless the screen is left, every accepted send is followed by a
\* state in which its reply stands in the conversation and isLoading is
\* false, so that Send is enabled for a non-blank draft; and every accepted
\* simulation by a state with isSimulating false and the prediction shown.
EveryStartResolves ==
    /\ \A k \in 2..(MaxMessages - 1) :
          ChatSendPending(k) ~> (Left \/ (Replied(k) /\ ~isLoading))
    /\ SimPendingInTime ~> (Left \/ (~isSimulating /\ showPrediction))

\* C20 witness: the reply of the one send of the conversation has arrived
\* and no reply is awaited
BackToIdleAfterReply ==
    /\ lastEvent.op = "chatTimer"
    /\ Replied(2)
    /\ ~isLoading
    /\ Len(messages) = 3
    /\ inputMessage = <<>>
    /\ timers = <<>>

\* C21: the prediction is shown on the meal simulator only; it comes to be
\* shown only by the callback of a simulation, run for the mounted screen;
\* and once shown it is hidden by no field edit, preset or new simulation:
\* only a document load, which ends the screen, takes it away.
PredictionStaysShown ==
    /\ [](showPrediction => Screen = "meal-sim")
    /\ [][/\ (~showPrediction /\ showPrediction') =>
               \E i \in DOMAIN timers : SimTimerFire(i) /\ Live(timers[i])
          /\ (showPrediction /\ ~showPrediction') =>
               \E url \in MenuUrls : Navigate(url)
          /\ ( \/ \E field \in DOMAIN FieldInputs :
                    \E value \in FieldInputs[field] :
                       handleInputChange(field, value)
               \/ \E k \in DOMAIN presetMeals : ApplyPreset(k)
               \/ ClickSimulate ) =>
               showPrediction' = showPrediction]_vars

\* C21 witness: the earlier prediction is on the screen while a second
\* simulation is pending and the description has since been emptied
OldPredictionWhilePendingAndInvalid ==
    /\ lastEvent.op = "edit"
    /\ showPrediction
    /\ isSimulating
    /\ Pending("sim") # {}
    /\ mealForm.description = ""
    /\ Len(DisplayedSeries) = 13

====
